---- MODULE Spec2Model ----
(***************************************************************************)
(* A model of scripts/generate_billing_report.py: LinodeBillingReport.     *)
(* One run is: collect_data (four kinds of linode-cli invocation) followed *)
(* by generate_pdf (tables, the cost-structure diagram, the resource       *)
(* chart, the document), inside the try/except of run().                   *)
(*                                                                         *)
(* Money is held in cents (the table prices are whole dollars, the account *)
(* figures have two decimals), so that "{x:.2f}" is exact.                 *)
(* Python dicts are functions from field names to values; a missing key is *)
(* a name outside the DOMAIN.  Strings that the code parses as numbers are *)
(* sequences of one-character strings.                                     *)
(***************************************************************************)
EXTENDS Integers, Sequences, FiniteSets, TLC

VARIABLES
    pc,            \* position of run(): which step comes next
    account_info,  \* self.account_info
    linodes,       \* self.linodes
    lke_clusters,  \* self.lke_clusters
    cluster_idx,   \* position of the "for cluster in self.lke_clusters" loop
    result,        \* outcome kind of the most recent linode-cli invocation
    calls,         \* history: the commands handed to subprocess.run, in order
    failures,      \* history: the number of invocations that failed
    console,       \* lines printed so far (warnings, completion, error)
    diagram,       \* what create_cost_structure_diagram drew
    story,         \* the flowables handed to doc.build
    files,         \* files written under ./reports
    exit_status,   \* <<>> while running, then <<status>> of the ended process
    lookups        \* cost lookups made by the cost-table specification

vars == <<pc, account_info, linodes, lke_clusters, cluster_idx, result, calls,
          failures, console, diagram, story, files, exit_status, lookups>>

-----------------------------------------------------------------------------
(* Bounds of the model.                                                    *)

MaxLinodes == 2
MaxClusters == 2
MaxPools == 1
MaxLookups == 2

-----------------------------------------------------------------------------
(* Generic helpers.                                                        *)

None == "None"

\* dict.get(key, default)
Get(d, k, default) == IF k \in DOMAIN d THEN d[k] ELSE default

NonEmptySeqsUpTo(S, n) == UNION {[1..k -> S] : k \in 1..n}

Last(s) == s[Len(s)]

RECURSIVE Join(_, _)
\* sep.join(parts)
Join(parts, sep) ==
    IF parts = <<>> THEN ""
    ELSE IF Len(parts) = 1 THEN parts[1]
    ELSE parts[1] \o sep \o Join(Tail(parts), sep)

-----------------------------------------------------------------------------
(* Numbers as the code reads and prints them.                              *)

\* A JSON scalar of the account record: t is "int", "float" or "str";
\* n is the number in cents, s the characters of a string.
JInt(c) == [t |-> "int", n |-> c, s |-> <<>>]
JFloat(c) == [t |-> "float", n |-> c, s |-> <<>>]
JStr(chars) == [t |-> "str", n |-> 0, s |-> chars]

Digit == {"0", "1", "2", "3", "4", "5", "6", "7", "8", "9"}

DigitVal(c) == CHOOSE d \in 0..9 : ToString(d) = c

IsDigits(s) == \A i \in 1..Len(s) : s[i] \in Digit

RECURSIVE NatOf(_)
NatOf(s) == IF s = <<>> THEN 0
            ELSE NatOf(SubSeq(s, 1, Len(s) - 1)) * 10 + DigitVal(s[Len(s)])

\* float(<str>): digits with at most one point and at least one digit; every
\* other text of the model's inputs raises ValueError (ok = FALSE).  Sign,
\* exponent and blanks are outside the inputs; digits past the second decimal
\* are dropped (cents).
ParseFloat(s) ==
    LET dots == {i \in 1..Len(s) : s[i] = "."}
        d    == IF dots = {} THEN Len(s) + 1 ELSE CHOOSE i \in dots : TRUE
        ip   == SubSeq(s, 1, d - 1)
        fp   == SubSeq(s, d + 1, Len(s))
        fv   == IF Len(fp) = 0 THEN 0
                ELSE IF Len(fp) = 1 THEN DigitVal(fp[1]) * 10
                ELSE DigitVal(fp[1]) * 10 + DigitVal(fp[2])
    IN  IF Cardinality(dots) <= 1 /\ IsDigits(ip) /\ IsDigits(fp)
           /\ Len(ip) + Len(fp) >= 1
        THEN [ok |-> TRUE, val |-> NatOf(ip) * 100 + fv]
        ELSE [ok |-> FALSE, val |-> 0]

\* float(v)
Float(v) == IF v.t = "str" THEN ParseFloat(v.s) ELSE [ok |-> TRUE, val |-> v.n]

Pad2(k) == IF k < 10 THEN "0" \o ToString(k) ELSE ToString(k)

\* f"{x:.2f}" of a non-negative amount
Fmt2(c) == ToString(c \div 100) \o "." \o Pad2(c % 100)

\* repr of a float: shortest form, at least one decimal
FloatRepr(c) ==
    ToString(c \div 100) \o "." \o
    (IF (c % 100) % 10 = 0 THEN ToString((c % 100) \div 10) ELSE Pad2(c % 100))

\* f"{v}"
StrOf(v) == IF v.t = "str" THEN Join(v.s, "")
            ELSE IF v.t = "int" THEN ToString(v.n \div 100)
            ELSE FloatRepr(v.n)

-----------------------------------------------------------------------------
(* The cost table.                                                         *)

DefaultCost == 2400

cost_map ==
    ("g6-nanode-1" :> 500) @@ ("g6-standard-1" :> 1200) @@
    ("g6-standard-2" :> 2400) @@ ("g6-standard-4" :> 4800) @@
    ("g6-standard-6" :> 9600) @@ ("g6-standard-8" :> 19200) @@
    ("g6-standard-16" :> 38400) @@ ("g6-standard-20" :> 48000) @@
    ("g6-standard-24" :> 57600) @@ ("g6-standard-32" :> 76800)

\* a lookup miss priced at nothing
get_instance_cost_zero_default(instance_type) == Get(cost_map, instance_type, 0)

get_instance_cost(instance_type) == Get(cost_map, instance_type, DefaultCost)

-----------------------------------------------------------------------------
(* What linode-cli can answer.                                             *)

\* One completed subprocess.run: it timed out, or it returned an exit code
\* and a standard output that is blank, not JSON, or a JSON value (a list of
\* records, or something that is no list).
ToolResult(to, rc, out, isl, its) ==
    [timeout |-> to, returncode |-> rc, stdout |-> out, is_list |-> isl, items |-> its]

ToolResults(lists) ==
    {ToolResult(TRUE, 0, "blank", FALSE, <<>>),
     ToolResult(FALSE, 1, "blank", FALSE, <<>>),
     ToolResult(FALSE, 0, "blank", FALSE, <<>>),
     ToolResult(FALSE, 0, "malformed", FALSE, <<>>),
     ToolResult(FALSE, 0, "json", FALSE, <<>>),
     ToolResult(FALSE, 0, "json", TRUE, <<>>)}
    \cup {ToolResult(FALSE, 0, "json", TRUE, l) : l \in lists}
    \cup {ToolResult(FALSE, 1, "json", TRUE, l) : l \in lists}

OutcomeKind(res) ==
    IF res.timeout THEN "timeout"
    ELSE IF res.returncode # 0 THEN "nonzero"
    ELSE IF res.stdout = "blank" THEN "empty_output"
    ELSE IF res.stdout = "malformed" THEN "malformed"
    ELSE IF ~res.is_list THEN "not_list"
    ELSE IF res.items = <<>> THEN "empty_list"
    ELSE "ok"

FailureKinds == {"timeout", "nonzero", "empty_output", "malformed", "not_list", "empty_list"}

\* run_linode_cli without the test of the exit code
run_linode_cli_any_exit(res) ==
    IF res.timeout THEN [is_none |-> TRUE, data |-> <<>>, warned |-> TRUE]
    ELSE IF res.stdout # "blank"
    THEN IF res.stdout = "malformed"
         THEN [is_none |-> TRUE, data |-> <<>>, warned |-> TRUE]
         ELSE IF res.is_list /\ res.items # <<>>
              THEN [is_none |-> FALSE, data |-> res.items, warned |-> FALSE]
              ELSE [is_none |-> TRUE, data |-> <<>>, warned |-> FALSE]
    ELSE [is_none |-> TRUE, data |-> <<>>, warned |-> FALSE]

\* The value run_linode_cli returns (None, or the parsed list) and whether
\* the except branch printed its warning.
run_linode_cli(res) ==
    IF res.timeout THEN [is_none |-> TRUE, data |-> <<>>, warned |-> TRUE]
    ELSE IF res.returncode = 0 /\ res.stdout # "blank"
    THEN IF res.stdout = "malformed"
         THEN [is_none |-> TRUE, data |-> <<>>, warned |-> TRUE]
         ELSE IF res.is_list /\ res.items # <<>>
              THEN [is_none |-> FALSE, data |-> res.items, warned |-> FALSE]
              ELSE [is_none |-> TRUE, data |-> <<>>, warned |-> FALSE]
    ELSE [is_none |-> TRUE, data |-> <<>>, warned |-> FALSE]

\* truth value of what run_linode_cli returned
Truthy(r) == ~r.is_none /\ r.data # <<>>

WarningLine(command) == "Warning: Failed to run linode-cli " \o Join(command, " ")

\* the console after one invocation
Warned(r, command) == IF r.warned THEN <<WarningLine(command)>> ELSE <<>>

-----------------------------------------------------------------------------
(* The records the tool is taken to return.                                *)

AccountRecords ==
    {[email |-> "ops@example.com"],
     [email |-> "ops@example.com", balance |-> JFloat(1000),
      balance_uninvoiced |-> JStr(<<"7", ".", "2", "5">>)],
     [email |-> "ops@example.com", balance |-> JStr(<<"a", "b", "c">>),
      balance_uninvoiced |-> JFloat(725)],
     [email |-> "ops@example.com", balance |-> JInt(0),
      balance_uninvoiced |-> JStr(<<>>)]}

LinodeRecords ==
    {[label |-> "web", type |-> "g6-standard-4"],
     [label |-> "db"]}

PoolRecords ==
    {[type |-> "g6-standard-4", count |-> 3],
     [count |-> 0]}

ClusterRecords ==
    {[label |-> "prod", id |-> 17],
     [label |-> "prod", id |-> 0],
     [label |-> "prod"]}

TypeCodes == DOMAIN cost_map \cup {"", "custom-xyz", "Unknown"}

-----------------------------------------------------------------------------
(* The run.                                                                *)

EmptyDiagram == [texts |-> <<>>, patches |-> <<>>]

Init ==
    /\ pc = "collect_account"
    /\ account_info = <<>>
    /\ linodes = <<>>
    /\ lke_clusters = <<>>
    /\ cluster_idx = 1
    /\ result = None
    /\ calls = <<>>
    /\ failures = 0
    /\ console = <<"Starting Linode Billing Report Generation">>
    /\ diagram = EmptyDiagram
    /\ story = <<>>
    /\ files = {}
    /\ exit_status = <<>>
    /\ lookups = <<>>

\* what one invocation leaves in the history variables
Invoked(command, res) ==
    /\ calls' = Append(calls, command)
    /\ result' = OutcomeKind(res)
    /\ failures' = failures + (IF OutcomeKind(res) \in FailureKinds THEN 1 ELSE 0)

CollectAccount ==
    /\ pc = "collect_account"
    /\ \E res \in ToolResults(NonEmptySeqsUpTo(AccountRecords, 1)) :
         LET command == <<"account", "view">>
             account_data == run_linode_cli(res)
         IN  /\ Invoked(command, res)
             /\ console' = console \o <<"Collecting account information...">>
                                   \o Warned(account_data, command)
             /\ account_info' = IF Truthy(account_data) THEN account_data.data[1]
                                ELSE account_info
    /\ pc' = "collect_linodes"
    /\ UNCHANGED <<linodes, lke_clusters, cluster_idx, diagram, story, files,
                   exit_status, lookups>>

CollectLinodes ==
    /\ pc = "collect_linodes"
    /\ \E res \in ToolResults(NonEmptySeqsUpTo(LinodeRecords, MaxLinodes)) :
         LET command == <<"linodes", "list">>
             linodes_data == run_linode_cli(res)
         IN  /\ Invoked(command, res)
             /\ console' = console \o <<"Collecting compute resources...">>
                                   \o Warned(linodes_data, command)
             /\ linodes' = IF Truthy(linodes_data) THEN linodes_data.data ELSE linodes
    /\ pc' = "collect_clusters"
    /\ UNCHANGED <<account_info, lke_clusters, cluster_idx, diagram, story, files,
                   exit_status, lookups>>

CollectClusters ==
    /\ pc = "collect_clusters"
    /\ \E res \in ToolResults(NonEmptySeqsUpTo(ClusterRecords, MaxClusters)) :
         LET command == <<"lke", "clusters-list">>
             lke_data == run_linode_cli(res)
         IN  /\ Invoked(command, res)
             /\ console' = console \o <<"Collecting Kubernetes clusters...">>
                                   \o Warned(lke_data, command)
             /\ lke_clusters' = IF Truthy(lke_data) THEN lke_data.data ELSE lke_clusters
    /\ cluster_idx' = 1
    /\ pc' = IF lke_clusters' = <<>> THEN "generate_pdf" ELSE "collect_pools"
    /\ UNCHANGED <<account_info, linodes, diagram, story, files, exit_status, lookups>>

\* cluster['pools'] = value
SetPools(cluster, value) ==
    [k \in DOMAIN cluster \cup {"pools"} |-> IF k = "pools" THEN value ELSE cluster[k]]

\* "cluster_id is not None" in place of the truth test
HasId_not_none(cluster) == "id" \in DOMAIN cluster

\* bool(cluster.get('id'))
HasId(cluster) == "id" \in DOMAIN cluster /\ cluster["id"] # 0

\* One iteration of "for cluster in self.lke_clusters".
CollectPools ==
    /\ pc = "collect_pools"
    /\ cluster_idx <= Len(lke_clusters)
    /\ LET cluster == lke_clusters[cluster_idx]
       IN  IF HasId(cluster)
           THEN \E res \in ToolResults(NonEmptySeqsUpTo(PoolRecords, MaxPools)) :
                  LET command == <<"lke", "pools-list", ToString(cluster["id"])>>
                      pools == run_linode_cli(res)
                  IN  /\ Invoked(command, res)
                      /\ console' = console \o Warned(pools, command)
                      /\ lke_clusters' =
                           [lke_clusters EXCEPT ![cluster_idx] =
                              SetPools(cluster, IF Truthy(pools) THEN pools.data ELSE <<>>)]
           ELSE UNCHANGED <<calls, result, failures, console, lke_clusters>>
    /\ cluster_idx' = cluster_idx + 1
    /\ pc' = IF cluster_idx' > Len(lke_clusters) THEN "generate_pdf" ELSE "collect_pools"
    /\ UNCHANGED <<account_info, linodes, diagram, story, files, exit_status, lookups>>

-----------------------------------------------------------------------------
(* create_cost_structure_diagram.                                          *)

RECURSIVE ConcatAll(_)
ConcatAll(ss) == IF ss = <<>> THEN <<>> ELSE Head(ss) \o ConcatAll(Tail(ss))

\* type_counts[t] = type_counts.get(t, 0) + 1, keeping insertion order
AddType(tc, t) ==
    IF \E i \in 1..Len(tc) : tc[i].type = t
    THEN [i \in 1..Len(tc) |->
            IF tc[i].type = t THEN [type |-> t, count |-> tc[i].count + 1] ELSE tc[i]]
    ELSE Append(tc, [type |-> t, count |-> 1])

RECURSIVE TypeCounts(_)
TypeCounts(ls) ==
    IF ls = <<>> THEN <<>>
    ELSE AddType(TypeCounts(SubSeq(ls, 1, Len(ls) - 1)),
                 Get(ls[Len(ls)], "type", "Unknown"))

\* float(balance) + float(uninvoiced); ok = FALSE when either float() raises
TotalDue(info) ==
    LET b == Float(Get(info, "balance", JInt(0)))
        u == Float(Get(info, "balance_uninvoiced", JInt(0)))
    IN  [ok |-> b.ok /\ u.ok, val |-> b.val + u.val]

\* both categories listed whatever was collected
UsedCategories_fixed(ls, cs) ==
    <<[name |-> "Compute Resources", color |-> "#FFE0E0"],
      [name |-> "Kubernetes (LKE)", color |-> "#E0F0FF"]>>

UsedCategories(ls, cs) ==
    (IF ls # <<>> THEN <<[name |-> "Compute Resources", color |-> "#FFE0E0"]>> ELSE <<>>)
    \o (IF cs # <<>> THEN <<[name |-> "Kubernetes (LKE)", color |-> "#E0F0FF"]>> ELSE <<>>)

\* the two text lines under the compute box for one type
ComputeLines(tc) ==
    ConcatAll([i \in 1..Len(tc) |->
        LET unit_cost == get_instance_cost(tc[i].type)
            total_cost == unit_cost * tc[i].count
        IN  IF tc[i].count > 1
            THEN <<ToString(tc[i].count) \o "x " \o tc[i].type,
                   "$" \o Fmt2(total_cost) \o "/mo">>
            ELSE <<tc[i].type, "$" \o Fmt2(unit_cost) \o "/mo">>])

\* every pool of every cluster, in order
AllPools(cs) == ConcatAll([i \in 1..Len(cs) |-> Get(cs[i], "pools", <<>>)])

PoolType(pool) == Get(pool, "type", "g6-standard-2")

PoolCount(pool) == Get(pool, "count", 0)

\* the price of one node, whatever the count
PoolCost_per_node(pool) == get_instance_cost(PoolType(pool))

PoolCost(pool) == get_instance_cost(PoolType(pool)) * PoolCount(pool)

\* the text lines under the Kubernetes box
PoolLines(pools) ==
    ConcatAll([i \in 1..Len(pools) |->
        IF PoolCount(pools[i]) > 0
        THEN <<ToString(PoolCount(pools[i])) \o "x " \o PoolType(pools[i]) \o " workers",
               "$" \o Fmt2(PoolCost(pools[i])) \o "/mo">>
        ELSE <<>>])

RECURSIVE SumSeq(_)
SumSeq(ns) == IF ns = <<>> THEN 0 ELSE Head(ns) + SumSeq(Tail(ns))

\* total_monthly of the diagram
TotalMonthly(ls, cs) ==
    SumSeq([i \in 1..Len(ls) |-> get_instance_cost(Get(ls[i], "type", ""))])
    + SumSeq([i \in 1..Len(AllPools(cs)) |-> PoolCost(AllPools(cs)[i])])

\* The details under the Kubernetes box are drawn when this holds.
ShowLkeDetails(ls, cs) == cs # <<>> /\ Len(UsedCategories(ls, cs)) > 1

\* What the diagram holds: the ax.text strings and the facecolors of the
\* patches, each in drawing order.
create_cost_structure_diagram(info, ls, cs) ==
    LET used_categories == UsedCategories(ls, cs)
        names == [i \in 1..Len(used_categories) |-> used_categories[i].name]
        colors == [i \in 1..Len(used_categories) |-> used_categories[i].color]
        total_monthly == TotalMonthly(ls, cs)
    IN  [texts |->
            <<"Current Month Cost Breakdown",
              "Current Month Usage: $" \o StrOf(Get(info, "balance_uninvoiced", JInt(0))),
              "Balance: $" \o StrOf(Get(info, "balance", JInt(0))),
              "Total Due: $" \o Fmt2(TotalDue(info).val)>>
            \o names
            \o (IF ls # <<>> /\ used_categories # <<>>
                THEN ComputeLines(TypeCounts(ls)) ELSE <<>>)
            \o (IF ShowLkeDetails(ls, cs)
                THEN <<"Control Plane: Free">> \o PoolLines(AllPools(cs)) ELSE <<>>)
            \o (IF ls # <<>> \/ cs # <<>>
                THEN IF total_monthly > 0
                     THEN <<"Current Resources Monthly Cost",
                            "$" \o Fmt2(total_monthly) \o "/month">>
                     ELSE <<>>
                ELSE <<"No active billable resources this month">>),
         patches |->
            <<"lightblue">> \o colors
            \o (IF (ls # <<>> \/ cs # <<>>) /\ total_monthly > 0
                THEN <<"lightyellow">> ELSE <<>>)]

DiagramFile == "reports/cost_structure.png"

ChartFile == "reports/resource_chart.png"

PdfFile == "reports/bill.pdf"

\* create_resource_chart without its early return
create_resource_chart_always(ls) == ChartFile

\* the path create_resource_chart returns, None when it draws nothing
create_resource_chart(ls) == IF ls = <<>> THEN None ELSE ChartFile

-----------------------------------------------------------------------------
(* generate_pdf.                                                           *)

Paragraph(style, text) == [kind |-> "Paragraph", style |-> style, text |-> text, rows |-> <<>>]

Table(rows) == [kind |-> "Table", style |-> "", text |-> "", rows |-> rows]

Image(file) == [kind |-> "Image", style |-> "", text |-> file, rows |-> <<>>]

\* the clock is not modelled
ReportDate == "<report date>"

AccountTable(info) ==
    <<<<"Account", Get(info, "email", "N/A")>>,
      <<"Report Date", ReportDate>>,
      <<"Balance", "$" \o StrOf(Get(info, "balance", JStr(<<"0">>)))>>,
      <<"Uninvoiced Usage", "$" \o StrOf(Get(info, "balance_uninvoiced", JStr(<<"0">>)))>>,
      <<"Total Due", "$" \o Fmt2(TotalDue(info).val)>>>>

\* the summary with its cost row whatever was collected
SummaryTable_always_cost(info, ls, cs) ==
    <<<<"Metric", "Value">>,
      <<"Active Compute Instances", ToString(Len(ls))>>,
      <<"Active Kubernetes Clusters", ToString(Len(cs))>>,
      <<"Current Month Usage", "$" \o StrOf(Get(info, "balance_uninvoiced", JStr(<<"0">>)))>>,
      <<"Est. Monthly Compute Cost",
        "$" \o Fmt2(SumSeq([i \in 1..Len(ls) |->
                       get_instance_cost(Get(ls[i], "type", ""))]))>>>>

SummaryTable(info, ls, cs) ==
    <<<<"Metric", "Value">>,
      <<"Active Compute Instances", ToString(Len(ls))>>,
      <<"Active Kubernetes Clusters", ToString(Len(cs))>>,
      <<"Current Month Usage", "$" \o StrOf(Get(info, "balance_uninvoiced", JStr(<<"0">>)))>>>>
    \o (IF ls # <<>>
        THEN <<<<"Est. Monthly Compute Cost",
                 "$" \o Fmt2(SumSeq([i \in 1..Len(ls) |->
                                get_instance_cost(Get(ls[i], "type", ""))]))>>>>
        ELSE <<>>)

ResourceTable(ls) ==
    <<<<"Instance", "Type", "Region", "Status", "Est. Monthly Cost">>>>
    \o [i \in 1..Len(ls) |->
          <<Get(ls[i], "label", "Unknown"), Get(ls[i], "type", "Unknown"),
            Get(ls[i], "region", "Unknown"), Get(ls[i], "status", "Unknown"),
            "$" \o Fmt2(get_instance_cost(Get(ls[i], "type", "")))>>]

PoolsStr(cluster) ==
    LET pools == Get(cluster, "pools", <<>>)
        pools_info == [i \in 1..Len(pools) |->
                         ToString(PoolCount(pools[i])) \o "x "
                         \o Get(pools[i], "type", "unknown")]
    IN  IF pools_info # <<>> THEN Join(pools_info, ", ") ELSE "No pools"

LkeTable(cs) ==
    <<<<"Cluster", "Version", "Region", "Node Pools">>>>
    \o [i \in 1..Len(cs) |->
          <<Get(cs[i], "label", "Unknown"), Get(cs[i], "k8s_version", "Unknown"),
            Get(cs[i], "region", "Unknown"), PoolsStr(cs[i])>>]

Recommendations ==
    <<"Review instance sizing - ensure resources match actual usage patterns",
      "Consider shutting down development/testing instances outside business hours",
      "Implement monitoring and alerting for cost management",
      "Use Linode's backup service instead of custom solutions for cost efficiency",
      "Evaluate long-term pricing options for stable workloads",
      "Regular cleanup of unused volumes, snapshots, and networking resources">>

\* The flowables of the document, in order (spacers left out); fs is the
\* set of files on disk when the existence of a chart is tested.
Story(info, ls, cs, fs) ==
    <<Paragraph("title", "Linode Infrastructure Billing Report"),
      Table(AccountTable(info)),
      Paragraph("heading", "Executive Summary"),
      Table(SummaryTable(info, ls, cs))>>
    \o (IF DiagramFile \in fs
        THEN <<Paragraph("heading", "Cost Structure Analysis"), Image(DiagramFile)>>
        ELSE <<>>)
    \o <<Paragraph("heading", "Active Compute Resources")>>
    \o (IF ls # <<>> THEN <<Table(ResourceTable(ls))>>
        ELSE <<Paragraph("normal", "No active compute instances")>>)
    \o <<Paragraph("heading", "Kubernetes Infrastructure")>>
    \o (IF cs # <<>> THEN <<Table(LkeTable(cs))>>
        ELSE <<Paragraph("normal", "No active Kubernetes clusters")>>)
    \o (IF create_resource_chart(ls) # None /\ create_resource_chart(ls) \in fs
        THEN <<Paragraph("heading", "Resource Distribution"), Image(ChartFile)>>
        ELSE <<>>)
    \o <<Paragraph("heading", "Cost Optimization Recommendations")>>
    \o [i \in 1..Len(Recommendations) |-> Paragraph("normal", Recommendations[i])]

\* the files on disk once both charts have been attempted
ChartsWritten(ls) ==
    files \cup {DiagramFile} \cup (IF create_resource_chart(ls) # None THEN {ChartFile} ELSE {})

ErrorLine == "Error generating report: could not convert string to float"

\* the except branch without sys.exit(1): run() returns and the script ends
RunExcept_no_exit ==
    /\ console' = console \o <<"Generating PDF report...", ErrorLine>>
    /\ exit_status' = <<0>>
    /\ pc' = "failed"
    /\ UNCHANGED <<diagram, story, files>>

\* the except branch of run(), entered from generate_pdf after its first print
RunExcept ==
    /\ console' = console \o <<"Generating PDF report...", ErrorLine>>
    /\ exit_status' = <<1>>
    /\ pc' = "failed"
    /\ UNCHANGED <<diagram, story, files>>

\* generate_pdf and the rest of run(): the try block from line 488 on, or the
\* except branch when a float() of the account figures raises.
GeneratePdf ==
    /\ pc = "generate_pdf"
    /\ IF ~TotalDue(account_info).ok
       THEN RunExcept
       ELSE /\ diagram' = create_cost_structure_diagram(account_info, linodes, lke_clusters)
            /\ story' = Story(account_info, linodes, lke_clusters, ChartsWritten(linodes))
            /\ files' = ChartsWritten(linodes) \cup {PdfFile}
            /\ console' = console \o <<"Generating PDF report...",
                                       "PDF report generated: " \o PdfFile,
                                       "Report Generation Complete!",
                                       "PDF Report: " \o PdfFile,
                                       "Reports Directory: reports",
                                       "Account Summary:",
                                       "Balance: $" \o StrOf(Get(account_info, "balance", JStr(<<"0">>))),
                                       "Uninvoiced: $" \o StrOf(Get(account_info, "balance_uninvoiced", JStr(<<"0">>))),
                                       "Active Instances: " \o ToString(Len(linodes)),
                                       "Active Clusters: " \o ToString(Len(lke_clusters))>>
            /\ exit_status' = <<0>>
            /\ pc' = "done"
    /\ UNCHANGED <<account_info, linodes, lke_clusters, cluster_idx, result, calls,
                   failures, lookups>>

Next ==
    \/ CollectAccount
    \/ CollectLinodes
    \/ CollectClusters
    \/ CollectPools
    \/ GeneratePdf

Spec == Init /\ [][Next]_vars

-----------------------------------------------------------------------------
(* The cost table on its own: lookups of arbitrary type codes.             *)

LookupCost ==
    /\ Len(lookups) < MaxLookups
    /\ \E t \in TypeCodes :
         lookups' = Append(lookups, [type |-> t, cost |-> get_instance_cost(t)])
    /\ UNCHANGED <<pc, account_info, linodes, lke_clusters, cluster_idx, result, calls,
                   failures, console, diagram, story, files, exit_status>>

CostSpec == Init /\ [][LookupCost]_vars

-----------------------------------------------------------------------------
(* Properties.                                                             *)

Range(s) == {s[i] : i \in 1..Len(s)}

Count(s, x) == Cardinality({i \in 1..Len(s) : s[i] = x})

Collected == pc \in {"generate_pdf", "done", "failed"}

\* the price the cost table states for a type code
Price(t) == IF t \in DOMAIN cost_map THEN cost_map[t] ELSE DefaultCost

\* C1: an invocation that fails (in any of the four categories, for any
\* failure outcome) leaves that category's result empty and moves the run on
\* to the next step; the run is never ended during collection.
C1_FailureSubstitutesEmpty ==
    /\ [](exit_status # <<>> => "Generating PDF report..." \in Range(console))
    /\ [][(Len(calls') = Len(calls) + 1 /\ result' \in FailureKinds) =>
            /\ exit_status' = <<>>
            /\ CASE pc = "collect_account" ->
                      DOMAIN account_info' = {} /\ pc' = "collect_linodes"
                 [] pc = "collect_linodes" ->
                      linodes' = <<>> /\ pc' = "collect_clusters"
                 [] pc = "collect_clusters" ->
                      lke_clusters' = <<>> /\ pc' = "generate_pdf"
                 [] pc = "collect_pools" ->
                      /\ "pools" \in DOMAIN lke_clusters'[cluster_idx]
                      /\ lke_clusters'[cluster_idx]["pools"] = <<>>
                      /\ pc' \in {"collect_pools", "generate_pdf"}
                 [] OTHER -> FALSE]_vars

\* C1 witness: the account view and the instance list failed, the pool lookup
\* timed out, and the document was still produced.
C1_Witness ==
    /\ pc = "done" /\ exit_status = <<0>> /\ PdfFile \in files
    /\ DOMAIN account_info = {} /\ linodes = <<>>
    /\ Len(calls) = 4 /\ failures = 3 /\ result = "timeout"

\* C2: once collect_data has finished, every collected cluster record has a
\* 'pools' field (a list), also a cluster whose identifier is absent or zero.
C2_PoolsAlwaysPresent ==
    Collected => \A i \in 1..Len(lke_clusters) : "pools" \in DOMAIN lke_clusters[i]

\* C3: when balance or balance_uninvoiced does not parse as a number, the run
\* still ends with status 0 and the document, the unparsable value counting
\* as zero in the total due.
C3_UnparsableBalanceIsZero ==
    (pc \in {"done", "failed"} /\ ~TotalDue(account_info).ok) =>
        /\ exit_status = <<0>>
        /\ PdfFile \in files
        /\ Len(story) >= 2
        /\ <<"Total Due", "$" \o Fmt2(TotalDue(account_info).val)>> \in Range(story[2].rows)

\* C4: whenever at least one cluster is collected, the diagram shows for every
\* node pool with count > 0 the line 'Nx TYPE workers' and its cost line,
\* whether or not any compute instance exists.
C4_PoolLinesShown ==
    (pc = "done" /\ lke_clusters # <<>>) =>
        \A i \in 1..Len(AllPools(lke_clusters)) :
            LET pool == AllPools(lke_clusters)[i]
            IN  PoolCount(pool) > 0 =>
                  /\ (ToString(PoolCount(pool)) \o "x " \o PoolType(pool) \o " workers")
                        \in Range(diagram.texts)
                  /\ ("$" \o Fmt2(Price(PoolType(pool)) * PoolCount(pool)) \o "/mo")
                        \in Range(diagram.texts)

\* C5: get_instance_cost returns the table price for each of the ten known
\* type codes and the default 24.00 for every other string (the empty string
\* and 'custom-xyz' included); it is never zero.
C5_CostLookupTotal ==
    \A i \in 1..Len(lookups) :
        LET t == lookups[i].type
            c == lookups[i].cost
        IN  /\ c > 0
            /\ t \in DOMAIN cost_map => c = cost_map[t]
            /\ t \notin DOMAIN cost_map => c = 2400
            /\ t = "g6-standard-2" => c = 2400
            /\ t = "g6-standard-4" => c = 4800

\* C5 witness: the empty string and a known key have both been looked up.
C5_Witness ==
    /\ Len(lookups) = 2
    /\ lookups[1].type = ""
    /\ lookups[2].type = "g6-standard-32"

\* C6: the number of warnings printed during collection equals the number of
\* invocations that failed.
C6_WarningPerFailure ==
    Cardinality({i \in 1..Len(console) :
                   console[i] \in {WarningLine(c) : c \in Range(calls)}}) = failures

\* the pool lookups of the clusters that carry a non-zero identifier, in
\* cluster-list order
IdentifiedPoolCalls(cs) ==
    ConcatAll([i \in 1..Len(cs) |->
        IF "id" \in DOMAIN cs[i] /\ cs[i]["id"] # 0
        THEN <<<<"lke", "pools-list", ToString(cs[i]["id"])>>>>
        ELSE <<>>])

FixedCalls == <<<<"account", "view">>, <<"linodes", "list">>, <<"lke", "clusters-list">>>>

\* the commands run so far are a prefix of the run's fixed sequence
CallsInOrder(expected) ==
    /\ Len(calls) <= Len(expected)
    /\ calls = SubSeq(expected, 1, Len(calls))

Headings(st) ==
    LET idx == {i \in 1..Len(st) : st[i].kind = "Paragraph" /\ st[i].style = "heading"}
        RECURSIVE Pick(_)
        Pick(i) == IF i > Len(st) THEN <<>>
                   ELSE (IF i \in idx THEN <<st[i].text>> ELSE <<>>) \o Pick(i + 1)
    IN  Pick(1)

\* the flowable that follows the heading h
Body(st, h) ==
    LET i == CHOOSE j \in 1..Len(st) : st[j].style = "heading" /\ st[j].text = h
    IN  st[i + 1]

\* C8 (amended): the document opens with the title and the account table
\* (which has no header of its own); the headers Executive Summary, Cost
\* Structure Analysis, Active Compute Resources, Kubernetes Infrastructure
\* and Cost Optimization Recommendations appear for every collected model, in
\* that order; the Resource Distribution header appears, before the
\* recommendations, exactly when at least one instance was collected; under
\* the resources and clusters headers stands a table when data is present
\* and a notice when not.
C8_SectionHeaders ==
    pc = "done" =>
        /\ story[1] = Paragraph("title", "Linode Infrastructure Billing Report")
        /\ story[2].kind = "Table"
        /\ Headings(story) =
              <<"Executive Summary", "Cost Structure Analysis",
                "Active Compute Resources", "Kubernetes Infrastructure">>
              \o (IF linodes # <<>> THEN <<"Resource Distribution">> ELSE <<>>)
              \o <<"Cost Optimization Recommendations">>
        /\ Body(story, "Active Compute Resources").kind = "Table" <=> linodes # <<>>
        /\ Body(story, "Kubernetes Infrastructure").kind = "Table" <=> lke_clusters # <<>>

\* C8 witness: a document for a model with clusters and no instance.
C8_Witness == pc = "done" /\ linodes = <<>> /\ lke_clusters # <<>> /\ story # <<>>

\* C8 as first stated: every section header appears for every collected
\* model, in the fixed order.
C8_AllHeadersAlways ==
    pc = "done" =>
        Headings(story) =
            <<"Executive Summary", "Cost Structure Analysis", "Active Compute Resources",
              "Kubernetes Infrastructure", "Resource Distribution",
              "Cost Optimization Recommendations">>

\* the grand total of a collected model: the instances' prices plus, for
\* every pool of every cluster, price times count
GrandTotal(ls, cs) ==
    LET RECURSIVE Instances(_)
        Instances(i) == IF i > Len(ls) THEN 0
                        ELSE Price(Get(ls[i], "type", "")) + Instances(i + 1)
        RECURSIVE Pools(_, _)
        Pools(c, k) ==
            IF c > Len(cs) THEN 0
            ELSE IF "pools" \notin DOMAIN cs[c] \/ k > Len(cs[c]["pools"]) THEN Pools(c + 1, 1)
            ELSE Price(Get(cs[c]["pools"][k], "type", "g6-standard-2"))
                    * Get(cs[c]["pools"][k], "count", 0)
                 + Pools(c, k + 1)
    IN  Instances(1) + Pools(1, 1)

\* C9: the diagram has exactly one labelled box for each category with at
\* least one collected resource and none for an empty category; with both
\* empty it shows the notice and no total-cost panel; the total-cost panel
\* is shown only when the grand total is positive.
C9_CategoryBoxes ==
    pc = "done" =>
        /\ Count(diagram.texts, "Compute Resources") = (IF linodes # <<>> THEN 1 ELSE 0)
        /\ Count(diagram.patches, "#FFE0E0") = (IF linodes # <<>> THEN 1 ELSE 0)
        /\ Count(diagram.texts, "Kubernetes (LKE)") = (IF lke_clusters # <<>> THEN 1 ELSE 0)
        /\ Count(diagram.patches, "#E0F0FF") = (IF lke_clusters # <<>> THEN 1 ELSE 0)
        /\ (linodes = <<>> /\ lke_clusters = <<>>) =>
              /\ "No active billable resources this month" \in Range(diagram.texts)
              /\ "lightyellow" \notin Range(diagram.patches)
              /\ "Current Resources Monthly Cost" \notin Range(diagram.texts)
        /\ ("lightyellow" \in Range(diagram.patches)
              \/ "Current Resources Monthly Cost" \in Range(diagram.texts)) =>
              GrandTotal(linodes, lke_clusters) > 0

\* C9 witness: clusters without any billable pool and no instance: one box,
\* no total-cost panel.
C9_Witness ==
    /\ pc = "done" /\ linodes = <<>> /\ lke_clusters # <<>>
    /\ "lightyellow" \notin Range(diagram.patches)
    /\ Count(diagram.patches, "#E0F0FF") = 1

\* C10: the figure of the total-cost panel is the sum of the instances'
\* prices plus the sum over all pools of price times count (the panel and the
\* figure are there when that sum is positive); a pool with count 0 adds
\* nothing and has no per-pool line.
C10_GrandTotal ==
    pc = "done" =>
        LET total == GrandTotal(linodes, lke_clusters)
            n == Len(diagram.texts)
        IN  /\ total > 0 =>
                /\ n >= 2
                /\ diagram.texts[n - 1] = "Current Resources Monthly Cost"
                /\ diagram.texts[n] = "$" \o Fmt2(total) \o "/month"
                /\ Last(diagram.patches) = "lightyellow"
            /\ total = 0 => "Current Resources Monthly Cost" \notin Range(diagram.texts)
            /\ \A i \in 1..Len(AllPools(lke_clusters)) :
                  LET pool == AllPools(lke_clusters)[i]
                  IN  Get(pool, "count", 0) = 0 =>
                        ("0x " \o Get(pool, "type", "g6-standard-2") \o " workers")
                            \notin Range(diagram.texts)

\* C10 witness: instances, a pool of three nodes and a pool of none.
C10_Witness ==
    /\ pc = "done" /\ linodes # <<>>
    /\ \E i, j \in 1..Len(AllPools(lke_clusters)) :
          /\ Get(AllPools(lke_clusters)[i], "count", 0) = 0
          /\ Get(AllPools(lke_clusters)[j], "count", 0) = 3

\* the sum of the prices of the collected instances
ComputeTotal(ls) ==
    LET RECURSIVE Upto(_)
        Upto(i) == IF i = 0 THEN 0 ELSE Upto(i - 1) + Price(Get(ls[i], "type", ""))
    IN  Upto(Len(ls))

\* the rows of a table whose first cell is the given label
RowsLabelled(rows, label) == {i \in 1..Len(rows) : rows[i][1] = label}

\* C11: the executive summary has the 'Est. Monthly Compute Cost' row exactly
\* when at least one instance was collected; its value is the sum of the
\* instances' prices, and the resources table has one row per instance, in
\* collected order, each with that instance's price (so the rows add up to
\* the summary's figure); with zero instances the summary shows the count 0,
\* no such row, and there is no resources table.
C11_ComputeCostRow ==
    pc = "done" =>
        LET summary == story[4].rows
            body == Body(story, "Active Compute Resources")
        IN  /\ story[3] = Paragraph("heading", "Executive Summary")
            /\ summary[2] = <<"Active Compute Instances", ToString(Len(linodes))>>
            /\ RowsLabelled(summary, "Est. Monthly Compute Cost") # {} <=> linodes # <<>>
            /\ \A i \in RowsLabelled(summary, "Est. Monthly Compute Cost") :
                  summary[i][2] = "$" \o Fmt2(ComputeTotal(linodes))
            /\ Cardinality(RowsLabelled(summary, "Est. Monthly Compute Cost")) <= 1
            /\ linodes # <<>> =>
                  /\ body.kind = "Table"
                  /\ Len(body.rows) = Len(linodes) + 1
                  /\ \A i \in 1..Len(linodes) :
                        /\ body.rows[i + 1][1] = Get(linodes[i], "label", "Unknown")
                        /\ body.rows[i + 1][5] =
                              "$" \o Fmt2(Price(Get(linodes[i], "type", "")))
            /\ linodes = <<>> => body.kind = "Paragraph"

\* C11 witness: a document for two instances of different prices.
C11_Witness ==
    /\ pc = "done"
    /\ Len(linodes) = 2
    /\ "type" \in DOMAIN linodes[1] /\ "type" \notin DOMAIN linodes[2]
    /\ <<"Est. Monthly Compute Cost", "$72.00">> \in Range(story[4].rows)

\* C12: the run ends with status 0 exactly when collection and document
\* generation both completed (the document is written and the completion
\* messages are printed); a failure raised on the way ends the run with a
\* non-zero status, the error line as the last line of the console, and no
\* completion message.
C12_ExitStatus ==
    /\ exit_status = <<0>> <=>
          (pc = "done" /\ PdfFile \in files
             /\ "Report Generation Complete!" \in Range(console))
    /\ pc \in {"done", "failed"} <=> exit_status # <<>>
    /\ pc = "failed" =>
          /\ exit_status # <<0>>
          /\ Last(console) = ErrorLine
          /\ "Report Generation Complete!" \notin Range(console)
          /\ ("PDF report generated: " \o PdfFile) \notin Range(console)
          /\ PdfFile \notin files
    /\ (pc \in {"done", "failed"} /\ ~TotalDue(account_info).ok) => pc = "failed"

\* C12 witness: a run ended by float() raising on the account's balance.
C12_Witness ==
    /\ pc = "failed" /\ exit_status = <<1>>
    /\ Len(calls) >= 3
    /\ ~TotalDue(account_info).ok

====
